---- MODULE Spec2Model ----
(***************************************************************************)
(* Scenario playback engine of the simulation page (static/js/simulation.js)*)
(* and the inline script of its template (templates/simulation.html),      *)
(* as a state machine.  Time is counted in units of Unit milliseconds; all *)
(* timer delays in the source are multiples of it.  Every timer callback   *)
(* and every user input is one action.                                     *)
(***************************************************************************)
EXTENDS Integers, Sequences, FiniteSets, TLC

VARIABLES
    simulationRunning,  \* simulation.js:6
    networkInstance,    \* simulation.js:5  (FALSE = null)
    scenarioSelect,     \* value of #scenario-select
    targetSelect,       \* selected options of #target-select
    startButton,        \* [label, disabled] of #start-simulation-btn
    resetDisabled,      \* disabled attribute of #reset-simulation-btn
    log,                \* event items appended to #simulation-log
    defenseTable,       \* rows of #defense-table tbody
    eventCounter,       \* text of #event-counter
    nodes,              \* vis.DataSet of nodes: id -> color
    edges,              \* vis.DataSet of edges: index -> [color, width, dashes]
    runs,               \* one record per startSimulation that passed validation
    report,             \* fields of the results modal, NoReport until shown
    toast,              \* title of the last toast shown
    lastReset,          \* number of runs that existed at the last resetSimulation
    inputs,             \* number of user inputs so far
    inline              \* state of the inline script of simulation.html

vars == <<simulationRunning, networkInstance, scenarioSelect, targetSelect,
          startButton, resetDisabled, log, defenseTable, eventCounter,
          nodes, edges, runs, report, toast, lastReset, inputs, inline>>

----------------------------------------------------------------------------
(* Bounds *)

(* Runs started, and user inputs made, in one behaviour of Spec and of
   CatalogSpec. *)
MaxRuns == 2
MaxInputs == 4
MaxSessionInputs == 2
MaxPauseInputs == 4
MaxCatalogInputs == 3
MaxPageInputs == 2

(* Time base: greatest common divisor of the delays of the source. *)
Unit == 500

(* Timer delays of the source, in milliseconds; the interval of runSimulation
   fires every Unit. *)
LoadingDelay == 1500
CompletionDelay == 1000

(* Outcomes of Math.floor(Math.random() * 30) and Math.floor(Math.random() * 50)
   that the model draws: the two extremes of each range. *)
DefenseRolls == {0, 29}
AttackRolls == {0, 49}

----------------------------------------------------------------------------
(* Static page content *)

ScenarioOptions ==
    {"ransomware", "phishing", "ddos", "data_exfiltration", "supply_chain", "custom"}

OptionText(value) ==
    CASE value = "ransomware" -> "Ransomware Attack"
      [] value = "phishing" -> "Phishing Campaign"
      [] value = "ddos" -> "DDoS Attack"
      [] value = "data_exfiltration" -> "Data Exfiltration"
      [] value = "supply_chain" -> "Supply Chain Attack"
      [] OTHER -> "Custom Scenario"

TargetOptions == {"web_servers", "databases", "endpoints", "network", "cloud"}

(* Choices of the user under Spec: the scenarios of the default script, one
   with default targets and one without, and deselecting every target. *)
ScenarioChoices == {"phishing", "custom"}
TargetChoices == {{}}

(* Choices of the user under CatalogSpec: every scenario of the page. *)
CatalogTargetChoices == {{}, {"cloud"}}

----------------------------------------------------------------------------
(* Scenario catalog *)

Ev(t, ty, m) == [time |-> t, type |-> ty, message |-> m, defense |-> "", effectiveness |-> ""]
Df(t, m, d, e) == [time |-> t, type |-> "defense", message |-> m, defense |-> d, effectiveness |-> e]

RansomwareEvents == <<
    Ev("00:00", "attack", "Initial access attempt detected via phishing email with malicious attachment"),
    Df("00:05", "Email filtering identified suspicious attachment pattern", "Email scanning", "Medium"),
    Ev("00:10", "attack", "User opened malicious attachment on Workstation 2"),
    Ev("00:12", "attack", "Malware establishes connection to command and control server"),
    Df("00:15", "Unusual network connection attempt detected", "Network monitoring", "High"),
    Df("00:18", "Connection to known malicious IP blocked", "Firewall rule", "High"),
    Ev("00:25", "attack", "Malware attempting to escalate privileges on Workstation 2"),
    Ev("00:30", "attack", "Lateral movement attempt detected from Workstation 2 to Admin machine"),
    Df("00:35", "Lateral movement partially blocked", "Network segmentation", "Medium"),
    Ev("00:40", "attack", "Ransomware payload trying to access file shares"),
    Df("00:42", "Abnormal file access pattern detected", "Behavior analysis", "High"),
    Df("00:45", "File encryption attempt blocked on network shares", "Access control", "High"),
    Ev("00:50", "attack", "Encryption of local files in progress on Workstation 2"),
    Df("00:55", "Process terminated based on behavior pattern", "Endpoint protection", "Medium"),
    Ev("01:00", "network", "Isolating Workstation 2 from network to prevent further spread"),
    Df("01:05", "System restoration from backup initiated for Workstation 2", "Recovery protocol", "High") >>

DDoSEvents == <<
    Ev("00:00", "network", "Unusual increase in traffic detected on external interfaces"),
    Ev("00:05", "attack", "Potential DDoS attack starting - SYN flood pattern detected"),
    Df("00:08", "Rate limiting applied to suspicious traffic sources", "Traffic shaping", "Medium"),
    Ev("00:12", "attack", "Attack ramping up - multiple attack vectors detected"),
    Ev("00:15", "network", "Web servers experiencing increased load"),
    Df("00:18", "Traffic analysis identifies botnet sources", "Threat intelligence", "High"),
    Ev("00:22", "attack", "Layer 7 attack targeting authentication endpoints"),
    Df("00:25", "Web application firewall rules updated", "WAF rules", "High"),
    Ev("00:30", "network", "Activating additional capacity to absorb attack"),
    Df("00:35", "DDoS mitigation service engaged", "Cloud mitigation", "High"),
    Ev("00:40", "attack", "Attack shifting to DNS amplification"),
    Df("00:45", "DNS filtering implemented", "DNS protection", "Medium"),
    Ev("00:50", "network", "Traffic levels beginning to normalize"),
    Df("00:55", "Blocking traffic from 150 identified attack sources", "IP blocking", "High"),
    Ev("01:00", "network", "Service availability restored to normal levels"),
    Df("01:05", "Post-attack analysis and rule optimization initiated", "Forensics", "High") >>

DataExfiltrationEvents == <<
    Ev("00:00", "attack", "Suspicious login detected from unusual location"),
    Df("00:05", "Multi-factor authentication challenge issued", "MFA", "High"),
    Ev("00:10", "attack", "Authentication bypass attempt detected"),
    Ev("00:15", "attack", "Privilege escalation observed via service account compromise"),
    Df("00:20", "Unusual account behavior detected", "Behavior monitoring", "Medium"),
    Ev("00:25", "attack", "Database query with excessive data retrieval executed"),
    Df("00:30", "Database activity monitoring alert triggered", "DAM", "High"),
    Ev("00:35", "attack", "Data staging observed in temporary directory"),
    Ev("00:40", "network", "Unusual outbound connection established to unknown external IP"),
    Df("00:45", "Data Loss Prevention system blocked file transfer", "DLP", "High"),
    Ev("00:50", "attack", "Attempt to compress and encrypt sensitive data detected"),
    Df("00:55", "File integrity monitoring alert triggered", "FIM", "Medium"),
    Ev("01:00", "network", "Suspicious DNS queries detected - potential covert channel"),
    Df("01:05", "DNS exfiltration blocked via pattern matching", "DNS filters", "High"),
    Df("01:10", "Account access revoked and investigation initiated", "Access control", "High"),
    Df("01:15", "Security team performed isolation of affected systems", "Containment", "High") >>

DefaultEvents == <<
    Ev("00:00", "attack", "Initial access attempt detected via phishing email with malicious attachment"),
    Df("00:05", "Email filtering identified suspicious attachment pattern", "Email scanning", "Medium"),
    Ev("00:10", "attack", "User opened malicious attachment on Workstation 2"),
    Df("00:15", "Endpoint protection blocked initial execution", "Endpoint protection", "High") >>

(* The scenario keys that have a script of their own: the case labels of the
   switch of getScenarioEvents. *)
CatalogKeys == {"ransomware", "ddos", "data_exfiltration"}

(* getScenarioEvents without its case 'ransomware': the key falls through to
   the default script. *)
getScenarioEventsNoRansomware(scenario) ==
    CASE scenario = "ddos" -> DDoSEvents
      [] scenario = "data_exfiltration" -> DataExfiltrationEvents
      [] OTHER -> DefaultEvents

getScenarioEvents(scenario) ==
    CASE scenario = "ransomware" -> RansomwareEvents
      [] scenario = "ddos" -> DDoSEvents
      [] scenario = "data_exfiltration" -> DataExfiltrationEvents
      [] OTHER -> DefaultEvents

----------------------------------------------------------------------------
(* Attack-vector inference *)

(* The characters of the strings that determineAttackVector works on: the
   messages of the catalog and the substrings it looks for. *)
Spell(s) ==
    CASE s = "phishing" ->
            << "p", "h", "i", "s", "h", "i", "n", "g" >>
      [] s = "malicious attachment" ->
            << "m", "a", "l", "i", "c", "i", "o", "u", "s", " ", "a", "t", "t", "a", "c", "h", "m",
               "e", "n", "t" >>
      [] s = "command and control" ->
            << "c", "o", "m", "m", "a", "n", "d", " ", "a", "n", "d", " ", "c", "o", "n", "t", "r",
               "o", "l" >>
      [] s = "escalate privileges" ->
            << "e", "s", "c", "a", "l", "a", "t", "e", " ", "p", "r", "i", "v", "i", "l", "e", "g",
               "e", "s" >>
      [] s = "lateral movement" ->
            << "l", "a", "t", "e", "r", "a", "l", " ", "m", "o", "v", "e", "m", "e", "n", "t" >>
      [] s = "file access" ->
            << "f", "i", "l", "e", " ", "a", "c", "c", "e", "s", "s" >>
      [] s = "encryption" ->
            << "e", "n", "c", "r", "y", "p", "t", "i", "o", "n" >>
      [] s = "DDoS" ->
            << "D", "D", "o", "S" >>
      [] s = "SQL" ->
            << "S", "Q", "L" >>
      [] s = "exfiltration" ->
            << "e", "x", "f", "i", "l", "t", "r", "a", "t", "i", "o", "n" >>
      [] s = "Initial access attempt detected via phishing email with malicious attachment" ->
            << "I", "n", "i", "t", "i", "a", "l", " ", "a", "c", "c", "e", "s", "s", " ", "a", "t",
               "t", "e", "m", "p", "t", " ", "d", "e", "t", "e", "c", "t", "e", "d", " ", "v", "i",
               "a", " ", "p", "h", "i", "s", "h", "i", "n", "g", " ", "e", "m", "a", "i", "l", " ",
               "w", "i", "t", "h", " ", "m", "a", "l", "i", "c", "i", "o", "u", "s", " ", "a", "t",
               "t", "a", "c", "h", "m", "e", "n", "t" >>
      [] s = "Email filtering identified suspicious attachment pattern" ->
            << "E", "m", "a", "i", "l", " ", "f", "i", "l", "t", "e", "r", "i", "n", "g", " ", "i",
               "d", "e", "n", "t", "i", "f", "i", "e", "d", " ", "s", "u", "s", "p", "i", "c", "i",
               "o", "u", "s", " ", "a", "t", "t", "a", "c", "h", "m", "e", "n", "t", " ", "p", "a",
               "t", "t", "e", "r", "n" >>
      [] s = "User opened malicious attachment on Workstation 2" ->
            << "U", "s", "e", "r", " ", "o", "p", "e", "n", "e", "d", " ", "m", "a", "l", "i", "c",
               "i", "o", "u", "s", " ", "a", "t", "t", "a", "c", "h", "m", "e", "n", "t", " ", "o",
               "n", " ", "W", "o", "r", "k", "s", "t", "a", "t", "i", "o", "n", " ", "2" >>
      [] s = "Malware establishes connection to command and control server" ->
            << "M", "a", "l", "w", "a", "r", "e", " ", "e", "s", "t", "a", "b", "l", "i", "s", "h",
               "e", "s", " ", "c", "o", "n", "n", "e", "c", "t", "i", "o", "n", " ", "t", "o", " ",
               "c", "o", "m", "m", "a", "n", "d", " ", "a", "n", "d", " ", "c", "o", "n", "t", "r",
               "o", "l", " ", "s", "e", "r", "v", "e", "r" >>
      [] s = "Unusual network connection attempt detected" ->
            << "U", "n", "u", "s", "u", "a", "l", " ", "n", "e", "t", "w", "o", "r", "k", " ", "c",
               "o", "n", "n", "e", "c", "t", "i", "o", "n", " ", "a", "t", "t", "e", "m", "p", "t",
               " ", "d", "e", "t", "e", "c", "t", "e", "d" >>
      [] s = "Connection to known malicious IP blocked" ->
            << "C", "o", "n", "n", "e", "c", "t", "i", "o", "n", " ", "t", "o", " ", "k", "n", "o",
               "w", "n", " ", "m", "a", "l", "i", "c", "i", "o", "u", "s", " ", "I", "P", " ", "b",
               "l", "o", "c", "k", "e", "d" >>
      [] s = "Malware attempting to escalate privileges on Workstation 2" ->
            << "M", "a", "l", "w", "a", "r", "e", " ", "a", "t", "t", "e", "m", "p", "t", "i", "n",
               "g", " ", "t", "o", " ", "e", "s", "c", "a", "l", "a", "t", "e", " ", "p", "r", "i",
               "v", "i", "l", "e", "g", "e", "s", " ", "o", "n", " ", "W", "o", "r", "k", "s", "t",
               "a", "t", "i", "o", "n", " ", "2" >>
      [] s = "Lateral movement attempt detected from Workstation 2 to Admin machine" ->
            << "L", "a", "t", "e", "r", "a", "l", " ", "m", "o", "v", "e", "m", "e", "n", "t", " ",
               "a", "t", "t", "e", "m", "p", "t", " ", "d", "e", "t", "e", "c", "t", "e", "d", " ",
               "f", "r", "o", "m", " ", "W", "o", "r", "k", "s", "t", "a", "t", "i", "o", "n", " ",
               "2", " ", "t", "o", " ", "A", "d", "m", "i", "n", " ", "m", "a", "c", "h", "i", "n",
               "e" >>
      [] s = "Lateral movement partially blocked" ->
            << "L", "a", "t", "e", "r", "a", "l", " ", "m", "o", "v", "e", "m", "e", "n", "t", " ",
               "p", "a", "r", "t", "i", "a", "l", "l", "y", " ", "b", "l", "o", "c", "k", "e", "d" >>
      [] s = "Ransomware payload trying to access file shares" ->
            << "R", "a", "n", "s", "o", "m", "w", "a", "r", "e", " ", "p", "a", "y", "l", "o", "a",
               "d", " ", "t", "r", "y", "i", "n", "g", " ", "t", "o", " ", "a", "c", "c", "e", "s",
               "s", " ", "f", "i", "l", "e", " ", "s", "h", "a", "r", "e", "s" >>
      [] s = "Abnormal file access pattern detected" ->
            << "A", "b", "n", "o", "r", "m", "a", "l", " ", "f", "i", "l", "e", " ", "a", "c", "c",
               "e", "s", "s", " ", "p", "a", "t", "t", "e", "r", "n", " ", "d", "e", "t", "e", "c",
               "t", "e", "d" >>
      [] s = "File encryption attempt blocked on network shares" ->
            << "F", "i", "l", "e", " ", "e", "n", "c", "r", "y", "p", "t", "i", "o", "n", " ", "a",
               "t", "t", "e", "m", "p", "t", " ", "b", "l", "o", "c", "k", "e", "d", " ", "o", "n",
               " ", "n", "e", "t", "w", "o", "r", "k", " ", "s", "h", "a", "r", "e", "s" >>
      [] s = "Encryption of local files in progress on Workstation 2" ->
            << "E", "n", "c", "r", "y", "p", "t", "i", "o", "n", " ", "o", "f", " ", "l", "o", "c",
               "a", "l", " ", "f", "i", "l", "e", "s", " ", "i", "n", " ", "p", "r", "o", "g", "r",
               "e", "s", "s", " ", "o", "n", " ", "W", "o", "r", "k", "s", "t", "a", "t", "i", "o",
               "n", " ", "2" >>
      [] s = "Process terminated based on behavior pattern" ->
            << "P", "r", "o", "c", "e", "s", "s", " ", "t", "e", "r", "m", "i", "n", "a", "t", "e",
               "d", " ", "b", "a", "s", "e", "d", " ", "o", "n", " ", "b", "e", "h", "a", "v", "i",
               "o", "r", " ", "p", "a", "t", "t", "e", "r", "n" >>
      [] s = "Isolating Workstation 2 from network to prevent further spread" ->
            << "I", "s", "o", "l", "a", "t", "i", "n", "g", " ", "W", "o", "r", "k", "s", "t", "a",
               "t", "i", "o", "n", " ", "2", " ", "f", "r", "o", "m", " ", "n", "e", "t", "w", "o",
               "r", "k", " ", "t", "o", " ", "p", "r", "e", "v", "e", "n", "t", " ", "f", "u", "r",
               "t", "h", "e", "r", " ", "s", "p", "r", "e", "a", "d" >>
      [] s = "System restoration from backup initiated for Workstation 2" ->
            << "S", "y", "s", "t", "e", "m", " ", "r", "e", "s", "t", "o", "r", "a", "t", "i", "o",
               "n", " ", "f", "r", "o", "m", " ", "b", "a", "c", "k", "u", "p", " ", "i", "n", "i",
               "t", "i", "a", "t", "e", "d", " ", "f", "o", "r", " ", "W", "o", "r", "k", "s", "t",
               "a", "t", "i", "o", "n", " ", "2" >>
      [] s = "Unusual increase in traffic detected on external interfaces" ->
            << "U", "n", "u", "s", "u", "a", "l", " ", "i", "n", "c", "r", "e", "a", "s", "e", " ",
               "i", "n", " ", "t", "r", "a", "f", "f", "i", "c", " ", "d", "e", "t", "e", "c", "t",
               "e", "d", " ", "o", "n", " ", "e", "x", "t", "e", "r", "n", "a", "l", " ", "i", "n",
               "t", "e", "r", "f", "a", "c", "e", "s" >>
      [] s = "Potential DDoS attack starting - SYN flood pattern detected" ->
            << "P", "o", "t", "e", "n", "t", "i", "a", "l", " ", "D", "D", "o", "S", " ", "a", "t",
               "t", "a", "c", "k", " ", "s", "t", "a", "r", "t", "i", "n", "g", " ", "-", " ", "S",
               "Y", "N", " ", "f", "l", "o", "o", "d", " ", "p", "a", "t", "t", "e", "r", "n", " ",
               "d", "e", "t", "e", "c", "t", "e", "d" >>
      [] s = "Rate limiting applied to suspicious traffic sources" ->
            << "R", "a", "t", "e", " ", "l", "i", "m", "i", "t", "i", "n", "g", " ", "a", "p", "p",
               "l", "i", "e", "d", " ", "t", "o", " ", "s", "u", "s", "p", "i", "c", "i", "o", "u",
               "s", " ", "t", "r", "a", "f", "f", "i", "c", " ", "s", "o", "u", "r", "c", "e", "s" >>
      [] s = "Attack ramping up - multiple attack vectors detected" ->
            << "A", "t", "t", "a", "c", "k", " ", "r", "a", "m", "p", "i", "n", "g", " ", "u", "p",
               " ", "-", " ", "m", "u", "l", "t", "i", "p", "l", "e", " ", "a", "t", "t", "a", "c",
               "k", " ", "v", "e", "c", "t", "o", "r", "s", " ", "d", "e", "t", "e", "c", "t", "e",
               "d" >>
      [] s = "Web servers experiencing increased load" ->
            << "W", "e", "b", " ", "s", "e", "r", "v", "e", "r", "s", " ", "e", "x", "p", "e", "r",
               "i", "e", "n", "c", "i", "n", "g", " ", "i", "n", "c", "r", "e", "a", "s", "e", "d",
               " ", "l", "o", "a", "d" >>
      [] s = "Traffic analysis identifies botnet sources" ->
            << "T", "r", "a", "f", "f", "i", "c", " ", "a", "n", "a", "l", "y", "s", "i", "s", " ",
               "i", "d", "e", "n", "t", "i", "f", "i", "e", "s", " ", "b", "o", "t", "n", "e", "t",
               " ", "s", "o", "u", "r", "c", "e", "s" >>
      [] s = "Layer 7 attack targeting authentication endpoints" ->
            << "L", "a", "y", "e", "r", " ", "7", " ", "a", "t", "t", "a", "c", "k", " ", "t", "a",
               "r", "g", "e", "t", "i", "n", "g", " ", "a", "u", "t", "h", "e", "n", "t", "i", "c",
               "a", "t", "i", "o", "n", " ", "e", "n", "d", "p", "o", "i", "n", "t", "s" >>
      [] s = "Web application firewall rules updated" ->
            << "W", "e", "b", " ", "a", "p", "p", "l", "i", "c", "a", "t", "i", "o", "n", " ", "f",
               "i", "r", "e", "w", "a", "l", "l", " ", "r", "u", "l", "e", "s", " ", "u", "p", "d",
               "a", "t", "e", "d" >>
      [] s = "Activating additional capacity to absorb attack" ->
            << "A", "c", "t", "i", "v", "a", "t", "i", "n", "g", " ", "a", "d", "d", "i", "t", "i",
               "o", "n", "a", "l", " ", "c", "a", "p", "a", "c", "i", "t", "y", " ", "t", "o", " ",
               "a", "b", "s", "o", "r", "b", " ", "a", "t", "t", "a", "c", "k" >>
      [] s = "DDoS mitigation service engaged" ->
            << "D", "D", "o", "S", " ", "m", "i", "t", "i", "g", "a", "t", "i", "o", "n", " ", "s",
               "e", "r", "v", "i", "c", "e", " ", "e", "n", "g", "a", "g", "e", "d" >>
      [] s = "Attack shifting to DNS amplification" ->
            << "A", "t", "t", "a", "c", "k", " ", "s", "h", "i", "f", "t", "i", "n", "g", " ", "t",
               "o", " ", "D", "N", "S", " ", "a", "m", "p", "l", "i", "f", "i", "c", "a", "t", "i",
               "o", "n" >>
      [] s = "DNS filtering implemented" ->
            << "D", "N", "S", " ", "f", "i", "l", "t", "e", "r", "i", "n", "g", " ", "i", "m", "p",
               "l", "e", "m", "e", "n", "t", "e", "d" >>
      [] s = "Traffic levels beginning to normalize" ->
            << "T", "r", "a", "f", "f", "i", "c", " ", "l", "e", "v", "e", "l", "s", " ", "b", "e",
               "g", "i", "n", "n", "i", "n", "g", " ", "t", "o", " ", "n", "o", "r", "m", "a", "l",
               "i", "z", "e" >>
      [] s = "Blocking traffic from 150 identified attack sources" ->
            << "B", "l", "o", "c", "k", "i", "n", "g", " ", "t", "r", "a", "f", "f", "i", "c", " ",
               "f", "r", "o", "m", " ", "1", "5", "0", " ", "i", "d", "e", "n", "t", "i", "f", "i",
               "e", "d", " ", "a", "t", "t", "a", "c", "k", " ", "s", "o", "u", "r", "c", "e", "s" >>
      [] s = "Service availability restored to normal levels" ->
            << "S", "e", "r", "v", "i", "c", "e", " ", "a", "v", "a", "i", "l", "a", "b", "i", "l",
               "i", "t", "y", " ", "r", "e", "s", "t", "o", "r", "e", "d", " ", "t", "o", " ", "n",
               "o", "r", "m", "a", "l", " ", "l", "e", "v", "e", "l", "s" >>
      [] s = "Post-attack analysis and rule optimization initiated" ->
            << "P", "o", "s", "t", "-", "a", "t", "t", "a", "c", "k", " ", "a", "n", "a", "l", "y",
               "s", "i", "s", " ", "a", "n", "d", " ", "r", "u", "l", "e", " ", "o", "p", "t", "i",
               "m", "i", "z", "a", "t", "i", "o", "n", " ", "i", "n", "i", "t", "i", "a", "t", "e",
               "d" >>
      [] s = "Suspicious login detected from unusual location" ->
            << "S", "u", "s", "p", "i", "c", "i", "o", "u", "s", " ", "l", "o", "g", "i", "n", " ",
               "d", "e", "t", "e", "c", "t", "e", "d", " ", "f", "r", "o", "m", " ", "u", "n", "u",
               "s", "u", "a", "l", " ", "l", "o", "c", "a", "t", "i", "o", "n" >>
      [] s = "Multi-factor authentication challenge issued" ->
            << "M", "u", "l", "t", "i", "-", "f", "a", "c", "t", "o", "r", " ", "a", "u", "t", "h",
               "e", "n", "t", "i", "c", "a", "t", "i", "o", "n", " ", "c", "h", "a", "l", "l", "e",
               "n", "g", "e", " ", "i", "s", "s", "u", "e", "d" >>
      [] s = "Authentication bypass attempt detected" ->
            << "A", "u", "t", "h", "e", "n", "t", "i", "c", "a", "t", "i", "o", "n", " ", "b", "y",
               "p", "a", "s", "s", " ", "a", "t", "t", "e", "m", "p", "t", " ", "d", "e", "t", "e",
               "c", "t", "e", "d" >>
      [] s = "Privilege escalation observed via service account compromise" ->
            << "P", "r", "i", "v", "i", "l", "e", "g", "e", " ", "e", "s", "c", "a", "l", "a", "t",
               "i", "o", "n", " ", "o", "b", "s", "e", "r", "v", "e", "d", " ", "v", "i", "a", " ",
               "s", "e", "r", "v", "i", "c", "e", " ", "a", "c", "c", "o", "u", "n", "t", " ", "c",
               "o", "m", "p", "r", "o", "m", "i", "s", "e" >>
      [] s = "Unusual account behavior detected" ->
            << "U", "n", "u", "s", "u", "a", "l", " ", "a", "c", "c", "o", "u", "n", "t", " ", "b",
               "e", "h", "a", "v", "i", "o", "r", " ", "d", "e", "t", "e", "c", "t", "e", "d" >>
      [] s = "Database query with excessive data retrieval executed" ->
            << "D", "a", "t", "a", "b", "a", "s", "e", " ", "q", "u", "e", "r", "y", " ", "w", "i",
               "t", "h", " ", "e", "x", "c", "e", "s", "s", "i", "v", "e", " ", "d", "a", "t", "a",
               " ", "r", "e", "t", "r", "i", "e", "v", "a", "l", " ", "e", "x", "e", "c", "u", "t",
               "e", "d" >>
      [] s = "Database activity monitoring alert triggered" ->
            << "D", "a", "t", "a", "b", "a", "s", "e", " ", "a", "c", "t", "i", "v", "i", "t", "y",
               " ", "m", "o", "n", "i", "t", "o", "r", "i", "n", "g", " ", "a", "l", "e", "r", "t",
               " ", "t", "r", "i", "g", "g", "e", "r", "e", "d" >>
      [] s = "Data staging observed in temporary directory" ->
            << "D", "a", "t", "a", " ", "s", "t", "a", "g", "i", "n", "g", " ", "o", "b", "s", "e",
               "r", "v", "e", "d", " ", "i", "n", " ", "t", "e", "m", "p", "o", "r", "a", "r", "y",
               " ", "d", "i", "r", "e", "c", "t", "o", "r", "y" >>
      [] s = "Unusual outbound connection established to unknown external IP" ->
            << "U", "n", "u", "s", "u", "a", "l", " ", "o", "u", "t", "b", "o", "u", "n", "d", " ",
               "c", "o", "n", "n", "e", "c", "t", "i", "o", "n", " ", "e", "s", "t", "a", "b", "l",
               "i", "s", "h", "e", "d", " ", "t", "o", " ", "u", "n", "k", "n", "o", "w", "n", " ",
               "e", "x", "t", "e", "r", "n", "a", "l", " ", "I", "P" >>
      [] s = "Data Loss Prevention system blocked file transfer" ->
            << "D", "a", "t", "a", " ", "L", "o", "s", "s", " ", "P", "r", "e", "v", "e", "n", "t",
               "i", "o", "n", " ", "s", "y", "s", "t", "e", "m", " ", "b", "l", "o", "c", "k", "e",
               "d", " ", "f", "i", "l", "e", " ", "t", "r", "a", "n", "s", "f", "e", "r" >>
      [] s = "Attempt to compress and encrypt sensitive data detected" ->
            << "A", "t", "t", "e", "m", "p", "t", " ", "t", "o", " ", "c", "o", "m", "p", "r", "e",
               "s", "s", " ", "a", "n", "d", " ", "e", "n", "c", "r", "y", "p", "t", " ", "s", "e",
               "n", "s", "i", "t", "i", "v", "e", " ", "d", "a", "t", "a", " ", "d", "e", "t", "e",
               "c", "t", "e", "d" >>
      [] s = "File integrity monitoring alert triggered" ->
            << "F", "i", "l", "e", " ", "i", "n", "t", "e", "g", "r", "i", "t", "y", " ", "m", "o",
               "n", "i", "t", "o", "r", "i", "n", "g", " ", "a", "l", "e", "r", "t", " ", "t", "r",
               "i", "g", "g", "e", "r", "e", "d" >>
      [] s = "Suspicious DNS queries detected - potential covert channel" ->
            << "S", "u", "s", "p", "i", "c", "i", "o", "u", "s", " ", "D", "N", "S", " ", "q", "u",
               "e", "r", "i", "e", "s", " ", "d", "e", "t", "e", "c", "t", "e", "d", " ", "-", " ",
               "p", "o", "t", "e", "n", "t", "i", "a", "l", " ", "c", "o", "v", "e", "r", "t", " ",
               "c", "h", "a", "n", "n", "e", "l" >>
      [] s = "DNS exfiltration blocked via pattern matching" ->
            << "D", "N", "S", " ", "e", "x", "f", "i", "l", "t", "r", "a", "t", "i", "o", "n", " ",
               "b", "l", "o", "c", "k", "e", "d", " ", "v", "i", "a", " ", "p", "a", "t", "t", "e",
               "r", "n", " ", "m", "a", "t", "c", "h", "i", "n", "g" >>
      [] s = "Account access revoked and investigation initiated" ->
            << "A", "c", "c", "o", "u", "n", "t", " ", "a", "c", "c", "e", "s", "s", " ", "r", "e",
               "v", "o", "k", "e", "d", " ", "a", "n", "d", " ", "i", "n", "v", "e", "s", "t", "i",
               "g", "a", "t", "i", "o", "n", " ", "i", "n", "i", "t", "i", "a", "t", "e", "d" >>
      [] s = "Security team performed isolation of affected systems" ->
            << "S", "e", "c", "u", "r", "i", "t", "y", " ", "t", "e", "a", "m", " ", "p", "e", "r",
               "f", "o", "r", "m", "e", "d", " ", "i", "s", "o", "l", "a", "t", "i", "o", "n", " ",
               "o", "f", " ", "a", "f", "f", "e", "c", "t", "e", "d", " ", "s", "y", "s", "t", "e",
               "m", "s" >>
      [] s = "Endpoint protection blocked initial execution" ->
            << "E", "n", "d", "p", "o", "i", "n", "t", " ", "p", "r", "o", "t", "e", "c", "t", "i",
               "o", "n", " ", "b", "l", "o", "c", "k", "e", "d", " ", "i", "n", "i", "t", "i", "a",
               "l", " ", "e", "x", "e", "c", "u", "t", "i", "o", "n" >>

(* String.prototype.includes: the needle occurs in the text as a contiguous
   run of characters, compared character by character. *)
Includes(text, needle) ==
    \E k \in 0..(Len(text) - Len(needle)) : SubSeq(text, k + 1, k + Len(needle)) = needle

(* The (substring, label) pairs of determineAttackVector, in the order of its
   if statements. *)
Rules == <<
    <<"phishing", "Phishing">>,
    <<"malicious attachment", "Malicious Attachment">>,
    <<"command and control", "C2 Communication">>,
    <<"escalate privileges", "Privilege Escalation">>,
    <<"lateral movement", "Lateral Movement">>,
    <<"file access", "Unauthorized Access">>,
    <<"encryption", "Encryption">>,
    <<"DDoS", "DDoS">>,
    <<"SQL", "SQL Injection">>,
    <<"exfiltration", "Data Exfiltration">> >>

(* determineAttackVector with its first two if statements exchanged. *)
determineAttackVectorAttachmentFirst(message) ==
    LET has(needle) == Includes(Spell(message), Spell(needle))
    IN IF has("malicious attachment") THEN "Malicious Attachment"
       ELSE IF has("phishing") THEN "Phishing"
       ELSE IF has("command and control") THEN "C2 Communication"
       ELSE IF has("escalate privileges") THEN "Privilege Escalation"
       ELSE IF has("lateral movement") THEN "Lateral Movement"
       ELSE IF has("file access") THEN "Unauthorized Access"
       ELSE IF has("encryption") THEN "Encryption"
       ELSE IF has("DDoS") THEN "DDoS"
       ELSE IF has("SQL") THEN "SQL Injection"
       ELSE IF has("exfiltration") THEN "Data Exfiltration"
       ELSE "Unknown"

(* The label of the first substring, in the order of the source, that the
   message includes. *)
determineAttackVector(message) ==
    LET has(needle) == Includes(Spell(message), Spell(needle))
    IN IF has("phishing") THEN "Phishing"
       ELSE IF has("malicious attachment") THEN "Malicious Attachment"
       ELSE IF has("command and control") THEN "C2 Communication"
       ELSE IF has("escalate privileges") THEN "Privilege Escalation"
       ELSE IF has("lateral movement") THEN "Lateral Movement"
       ELSE IF has("file access") THEN "Unauthorized Access"
       ELSE IF has("encryption") THEN "Encryption"
       ELSE IF has("DDoS") THEN "DDoS"
       ELSE IF has("SQL") THEN "SQL Injection"
       ELSE IF has("exfiltration") THEN "Data Exfiltration"
       ELSE "Unknown"

(* The attack-vector cell of a row of the defense table (addDefenseAction). *)
AttackVector(row) == determineAttackVector(row.event.message)

----------------------------------------------------------------------------
(* Topology graph *)

NodeIds == 1..8
EdgeIdx == 0..7

NodeColor(bg, bd) == [background |-> bg, border |-> bd]

greenStyle == NodeColor("#198754", "#146c43")
firewallStyle == NodeColor("#0d6efd", "#0a58ca")
internetStyle == NodeColor("#6c757d", "#495057")
compromisedStyle == NodeColor("#dc3545", "#b02a37")
atRiskStyle == NodeColor("#fd7e14", "#ca6510")
iconResetStyle == NodeColor("#ffffff", "#0dcaf0")
(* The Admin node is created without a color property. *)
noStyle == NodeColor("", "")

NodeShape ==
    [id \in NodeIds |->
        CASE id = 1 -> "cloud"
          [] id = 2 -> "box"
          [] id \in {3, 4} -> "server"
          [] id = 5 -> "database"
          [] id = 6 -> "icon"
          [] OTHER -> "desktop"]

InitialNodes ==
    [id \in NodeIds |->
        CASE id = 1 -> internetStyle
          [] id = 2 -> firewallStyle
          [] id = 6 -> noStyle
          [] OTHER -> greenStyle]

EdgeEnds ==
    [k \in EdgeIdx |->
        CASE k = 0 -> <<1, 2>>
          [] k = 1 -> <<2, 3>>
          [] k = 2 -> <<2, 4>>
          [] k = 3 -> <<3, 5>>
          [] k = 4 -> <<4, 5>>
          [] k = 5 -> <<2, 6>>
          [] k = 6 -> <<6, 7>>
          [] OTHER -> <<6, 8>>]

(* The object stored under an edge's color property. *)
EdgeColor(c) == [color |-> c, width |-> 0, dashes |-> FALSE, arrows |-> FALSE]
dataFlowStyle == [color |-> "#fd7e14", width |-> 3, dashes |-> FALSE, arrows |-> TRUE]
dashedInColor == [color |-> "#495057", width |-> 0, dashes |-> TRUE, arrows |-> FALSE]

(* Edges are created without own properties: they show the network options
   (width 2, color #495057, no dashes). *)
DefaultEdgeWidth == 2
InitialEdges ==
    [k \in EdgeIdx |-> [color |-> EdgeColor("#495057"), width |-> DefaultEdgeWidth, dashes |-> FALSE]]

(* One edges.update item: the properties in has are overwritten (DataSet.update
   merges the top-level properties of the item). *)
EUpd(k, has, c, w, d) == [idx |-> k, has |-> has, color |-> c, width |-> w, dashes |-> d]
EC(k, c) == EUpd(k, {"color"}, c, 0, FALSE)

UpdateEdge(e, u) ==
    [color |-> IF "color" \in u.has THEN u.color ELSE e.color,
     width |-> IF "width" \in u.has THEN u.width ELSE e.width,
     dashes |-> IF "dashes" \in u.has THEN u.dashes ELSE e.dashes]

RECURSIVE UpdateEdges(_, _)
UpdateEdges(es, us) ==
    IF us = <<>> THEN es
    ELSE UpdateEdges([es EXCEPT ![Head(us).idx] = UpdateEdge(@, Head(us))], Tail(us))

(* nodes.update: the color of the item with the given id is overwritten; an
   id that the DataSet does not hold yet is added to it. *)
RECURSIVE UpdateNodes(_, _)
UpdateNodes(ns, us) ==
    IF us = <<>> THEN ns
    ELSE UpdateNodes([id \in DOMAIN ns \cup {Head(us)[1]} |->
                         IF id = Head(us)[1] THEN Head(us)[2] ELSE ns[id]],
                     Tail(us))

Step(delay, nu, eu) == [delay |-> delay, nodes |-> nu, edges |-> eu]

simulateRansomwareAttack == <<
    Step(2000, << <<8, compromisedStyle>> >>, <<>>),
    Step(6000, << <<6, atRiskStyle>> >>, << EC(6, EdgeColor("#dc3545")) >>),
    Step(9000, << <<6, compromisedStyle>>, <<7, atRiskStyle>> >>, <<>>),
    Step(12000, << <<3, atRiskStyle>>, <<4, atRiskStyle>> >>,
                << EC(2, EdgeColor("#fd7e14")), EC(3, EdgeColor("#fd7e14")) >>),
    Step(15000, <<>>, << EC(6, dashedInColor) >>),
    Step(18000, << <<3, greenStyle>>, <<4, greenStyle>> >>,
                << EC(2, EdgeColor("#495057")), EC(3, EdgeColor("#495057")) >>) >>

simulateDDoSAttack == <<
    Step(2000, << <<1, compromisedStyle>> >>, << EC(0, EdgeColor("#dc3545")) >>),
    Step(4000, << <<2, atRiskStyle>> >>, <<>>),
    Step(6000, << <<3, atRiskStyle>> >>, << EC(1, EdgeColor("#dc3545")) >>),
    Step(9000, <<>>, << EUpd(0, {"width"}, EdgeColor(""), 6, FALSE) >>),
    Step(12000, << <<2, firewallStyle>> >>,
                << EUpd(0, {"width", "color"}, EdgeColor("#0d6efd"), 2, FALSE) >>),
    Step(15000, << <<3, greenStyle>> >>, << EC(1, EdgeColor("#495057")) >>) >>

simulateDataExfiltration == <<
    Step(2000, << <<7, compromisedStyle>> >>, <<>>),
    Step(5000, << <<6, compromisedStyle>> >>, << EC(5, dataFlowStyle) >>),
    Step(8000, << <<4, compromisedStyle>> >>, << EC(3, dataFlowStyle) >>),
    Step(11000, << <<5, compromisedStyle>> >>, << EC(4, dataFlowStyle) >>),
    Step(14000, <<>>, << EC(2, dataFlowStyle), EC(1, dataFlowStyle), EC(0, dataFlowStyle) >>),
    Step(17000, << <<2, firewallStyle>> >>,
                << EUpd(0, {"color", "dashes"}, EdgeColor("#495057"), 0, TRUE) >>) >>

(* simulateGenericAttack with a wrong node id in its last step. *)
simulateGenericAttackNewNode == <<
    Step(3000, << <<8, compromisedStyle>> >>, <<>>),
    Step(6000, << <<2, firewallStyle>> >>, <<>>),
    Step(9000, << <<9, greenStyle>> >>, <<>>) >>

simulateGenericAttack == <<
    Step(3000, << <<8, compromisedStyle>> >>, <<>>),
    Step(6000, << <<2, firewallStyle>> >>, <<>>),
    Step(9000, << <<8, greenStyle>> >>, <<>>) >>

updateNetworkForScenario(scenario) ==
    CASE scenario = "ransomware" -> simulateRansomwareAttack
      [] scenario = "ddos" -> simulateDDoSAttack
      [] scenario = "data_exfiltration" -> simulateDataExfiltration
      [] OTHER -> simulateGenericAttack

(* Age, in units, at which the last graph transition of a scenario fires. *)
LastStepAge(scenario) ==
    LET script == updateNetworkForScenario(scenario)
    IN script[Len(script)].delay \div Unit

(* The transition of a scenario due at the given age, as a set of indexes. *)
StepsAt(scenario, age) ==
    {k \in DOMAIN updateNetworkForScenario(scenario) :
        updateNetworkForScenario(scenario)[k].delay = age * Unit}

resetNodes(ns) ==
    [id \in NodeIds |->
        IF id # 1 /\ id # 2
        THEN IF NodeShape[id] \in {"server", "desktop", "database"} THEN greenStyle
             ELSE IF NodeShape[id] = "icon" THEN iconResetStyle
             ELSE ns[id]
        ELSE ns[id]]

resetEdges(es) ==
    [k \in EdgeIdx |-> [color |-> EdgeColor("#495057"), width |-> es[k].width, dashes |-> FALSE]]

----------------------------------------------------------------------------
(* Inline script of templates/simulation.html: its own data sets, network,
   event list and graph transitions *)

(* The events constant of startSimulationEvents. *)
startSimulationEventsList == <<
    Ev("00:00", "attack", "Initial access attempt detected via phishing email with malicious attachment"),
    Df("00:05", "Email filtering identified suspicious attachment pattern", "Email scanning", "Medium"),
    Ev("00:10", "attack", "User opened malicious attachment on Workstation 2"),
    Ev("00:12", "attack", "Malware establishes connection to command and control server"),
    Df("00:15", "Unusual network connection attempt detected", "Network monitoring", "High"),
    Df("00:18", "Connection to known malicious IP blocked", "Firewall rule", "High"),
    Ev("00:25", "attack", "Malware attempting to escalate privileges on Workstation 2"),
    Ev("00:30", "attack", "Lateral movement attempt detected from Workstation 2 to Admin machine"),
    Df("00:35", "Lateral movement partially blocked", "Network segmentation", "Medium"),
    Ev("00:40", "attack", "Ransomware payload trying to access file shares"),
    Df("00:42", "Abnormal file access pattern detected", "Behavior analysis", "High"),
    Df("00:45", "File encryption attempt blocked on network shares", "Access control", "High"),
    Ev("00:50", "attack", "Encryption of local files in progress on Workstation 2"),
    Df("00:55", "Process terminated based on behavior pattern", "Endpoint protection", "Medium"),
    Ev("01:00", "network", "Isolating Workstation 2 from network to prevent further spread"),
    Df("01:05", "System restoration from backup initiated for Workstation 2", "Recovery protocol", "High") >>

(* The nodes data set of the inline script: id -> color. *)
InlineInitialNodes ==
    [id \in NodeIds |->
        CASE id = 1 -> internetStyle
          [] id = 2 -> firewallStyle
          [] id = 6 -> noStyle
          [] OTHER -> greenStyle]

(* An item of the edges data set of the inline script.  The items are created
   without id and without color. *)
InlineEdge(from, to, c) == [from |-> from, to |-> to, color |-> c]

InlineInitialEdges == <<
    InlineEdge(1, 2, EdgeColor("")), InlineEdge(2, 3, EdgeColor("")),
    InlineEdge(2, 4, EdgeColor("")), InlineEdge(3, 5, EdgeColor("")),
    InlineEdge(4, 5, EdgeColor("")), InlineEdge(2, 6, EdgeColor("")),
    InlineEdge(6, 7, EdgeColor("")), InlineEdge(6, 8, EdgeColor("")) >>

(* The six timeouts of simulateAttack.  Its edges.update calls pass items
   without id, which the data set adds as new items. *)
simulateAttack == <<
    Step(2000, << <<8, compromisedStyle>> >>, <<>>),
    Step(5000, << <<6, atRiskStyle>> >>, << InlineEdge(8, 6, EdgeColor("#dc3545")) >>),
    Step(8000, << <<6, atRiskStyle>>, <<7, atRiskStyle>> >>, <<>>),
    Step(10000, << <<3, atRiskStyle>>, <<4, atRiskStyle>> >>,
         << InlineEdge(6, 3, EdgeColor("#fd7e14")), InlineEdge(6, 4, EdgeColor("#fd7e14")) >>),
    Step(13000, <<>>,
         << InlineEdge(6, 8, dashedInColor), InlineEdge(8, 6, dashedInColor) >>),
    Step(15000, << <<3, greenStyle>>, <<4, greenStyle>> >>,
         << InlineEdge(6, 3, EdgeColor("#495057")), InlineEdge(6, 4, EdgeColor("#495057")) >>) >>

(* The transitions of simulateAttack due at the given age. *)
InlineStepsAt(age) == {k \in DOMAIN simulateAttack : simulateAttack[k].delay = age * Unit}

InlineLastStepAge == simulateAttack[Len(simulateAttack)].delay \div Unit

(* One click handled by the inline listener: its loading timeout, then the
   interval of startSimulationEvents, the timeouts of simulateAttack and the
   timeout of showResults.  The fields are those of a run of simulation.js. *)
NewInlineRun ==
    [phase |-> "loading", load |-> LoadingDelay \div Unit, age |-> 0, i |-> 0,
     eventCount |-> 0, interval |-> FALSE, graph |-> FALSE, doneIn |-> -1,
     due |-> {}]

(* The inline script after DOMContentLoaded: data sets built, no network. *)
InitialInline ==
    [network |-> FALSE, nodes |-> InlineInitialNodes, edges |-> InlineInitialEdges,
     runs |-> <<>>]

----------------------------------------------------------------------------
(* State *)

NoReport == [scenarioName |-> "", duration |-> "", defenseScore |-> -1, attackScore |-> -1]

Button(label, disabled) == [label |-> label, disabled |-> disabled]

(* A run: one call of startSimulation that passed validation.  phase is
   "loading" until the loading timeout has fired.  load and doneIn count the
   units left until the loading and the completion timeout fire; age counts
   the units since runSimulation was called; due holds the callbacks of the
   run whose time has come and that have not run yet. *)
NewRun(scenario, targets, graph) ==
    [scenario |-> scenario, targets |-> targets, phase |-> "loading",
     load |-> LoadingDelay \div Unit, age |-> 0, i |-> 0, eventCount |-> 0,
     interval |-> FALSE, graph |-> graph, doneIn |-> -1, completions |-> 0,
     due |-> {}]

Init ==
    /\ simulationRunning = FALSE
    /\ networkInstance = FALSE
    /\ scenarioSelect = "ransomware"
    /\ targetSelect = {}
    /\ startButton = Button("Start Simulation", FALSE)
    /\ resetDisabled = TRUE
    /\ log = <<>>
    /\ defenseTable = <<>>
    /\ eventCounter = 0
    /\ nodes = InitialNodes
    /\ edges = InitialEdges
    /\ runs = <<>>
    /\ report = NoReport
    /\ toast = ""
    /\ lastReset = 0
    /\ inputs = 0
    /\ inline = InitialInline

----------------------------------------------------------------------------
(* User input *)

DefaultTargets(scenario) ==
    CASE scenario = "ransomware" -> {"endpoints", "databases"}
      [] scenario = "phishing" -> {"endpoints"}
      [] scenario = "ddos" -> {"web_servers", "network"}
      [] scenario = "data_exfiltration" -> {"databases", "endpoints"}
      [] scenario = "supply_chain" -> {"web_servers", "endpoints"}
      [] OTHER -> {}

(* updateSimulationOptions without its loop that deselects every option: the
   default targets are added to the selection that was there. *)
ChangeScenarioKeepsSelection(s) ==
    /\ s # scenarioSelect
    /\ scenarioSelect' = s
    /\ targetSelect' = targetSelect \cup (DefaultTargets(s) \cap TargetOptions)
    /\ UNCHANGED <<simulationRunning, networkInstance, startButton, resetDisabled,
                   log, defenseTable, eventCounter, nodes, edges, runs, report,
                   toast, lastReset>>

(* change event of #scenario-select: updateSimulationOptions *)
ChangeScenario(s) ==
    /\ s # scenarioSelect
    /\ scenarioSelect' = s
    /\ targetSelect' = DefaultTargets(s) \cap TargetOptions
    /\ UNCHANGED <<simulationRunning, networkInstance, startButton, resetDisabled,
                   log, defenseTable, eventCounter, nodes, edges, runs, report,
                   toast, lastReset>>

(* The user picks options of #target-select by hand (no handler). *)
SelectTargets(ts) ==
    /\ ts # targetSelect
    /\ targetSelect' = ts
    /\ UNCHANGED <<simulationRunning, networkInstance, scenarioSelect, startButton,
                   resetDisabled, log, defenseTable, eventCounter, nodes, edges,
                   runs, report, toast, lastReset>>

(* pauseSimulation as a toggle: a call while paused sets the simulation
   running again. *)
pauseSimulationToggle ==
    /\ simulationRunning' = ~simulationRunning
    /\ startButton' = [startButton EXCEPT !.label =
                          IF simulationRunning THEN "Resume Simulation"
                          ELSE "Pause Simulation"]
    /\ toast' = "Simulation paused"
    /\ UNCHANGED <<networkInstance, scenarioSelect, targetSelect, resetDisabled,
                   log, defenseTable, eventCounter, nodes, edges, runs, report,
                   lastReset>>

(* pauseSimulation, reached from startSimulation while simulationRunning *)
pauseSimulation ==
    /\ simulationRunning' = FALSE
    /\ startButton' = [startButton EXCEPT !.label = "Resume Simulation"]
    /\ toast' = "Simulation paused"
    /\ UNCHANGED <<networkInstance, scenarioSelect, targetSelect, resetDisabled,
                   log, defenseTable, eventCounter, nodes, edges, runs, report,
                   lastReset>>

(* startSimulation with an empty target selection *)
startRejected ==
    /\ toast' = "Validation Error"
    /\ UNCHANGED <<simulationRunning, networkInstance, scenarioSelect, targetSelect,
                   startButton, resetDisabled, log, defenseTable, eventCounter,
                   nodes, edges, runs, report, lastReset>>

(* startSimulation past validation: loading state, logs cleared, network
   created if there is none, loading timeout set *)
startAccepted ==
    /\ Len(runs) < MaxRuns
    /\ startButton' = Button("Starting...", TRUE)
    /\ log' = <<>>
    /\ defenseTable' = <<>>
    /\ eventCounter' = 0
    /\ networkInstance' = TRUE
    /\ runs' = Append(runs, NewRun(scenarioSelect, targetSelect, TRUE))
    /\ UNCHANGED <<simulationRunning, scenarioSelect, targetSelect, resetDisabled,
                   nodes, edges, report, toast, lastReset>>

(* startSimulation without the validation of the target selection. *)
startSimulationNoValidation ==
    /\ ~startButton.disabled
    /\ IF simulationRunning THEN pauseSimulation ELSE startAccepted

(* startSimulation with the validation of the target selection ahead of the
   test of simulationRunning. *)
startSimulationValidateFirst ==
    /\ ~startButton.disabled
    /\ IF targetSelect = {} THEN startRejected
       ELSE IF simulationRunning THEN pauseSimulation
       ELSE startAccepted

(* click on #start-simulation-btn: startSimulation *)
startSimulation ==
    /\ ~startButton.disabled
    /\ IF simulationRunning THEN pauseSimulation
       ELSE IF targetSelect = {} THEN startRejected
       ELSE startAccepted

(* resetSimulation with a resetSimulationLogs that empties the event log and
   the counter and leaves the rows of the defense table. *)
resetSimulationKeepsTable ==
    /\ ~resetDisabled
    /\ simulationRunning' = FALSE
    /\ startButton' = Button("Start Simulation", FALSE)
    /\ resetDisabled' = TRUE
    /\ log' = <<>>
    /\ eventCounter' = 0
    /\ nodes' = IF networkInstance THEN resetNodes(nodes) ELSE nodes
    /\ edges' = IF networkInstance THEN resetEdges(edges) ELSE edges
    /\ toast' = "Simulation reset"
    /\ lastReset' = Len(runs)
    /\ UNCHANGED <<networkInstance, scenarioSelect, targetSelect, runs, report,
                   defenseTable>>

(* click on #reset-simulation-btn: resetSimulation *)
resetSimulation ==
    /\ ~resetDisabled
    /\ simulationRunning' = FALSE
    /\ startButton' = Button("Start Simulation", FALSE)
    /\ resetDisabled' = TRUE
    /\ log' = <<>>
    /\ defenseTable' = <<>>
    /\ eventCounter' = 0
    /\ nodes' = IF networkInstance THEN resetNodes(nodes) ELSE nodes
    /\ edges' = IF networkInstance THEN resetEdges(edges) ELSE edges
    /\ toast' = "Simulation reset"
    /\ lastReset' = Len(runs)
    /\ UNCHANGED <<networkInstance, scenarioSelect, targetSelect, runs, report>>

----------------------------------------------------------------------------
(* Timer callbacks *)

Due(r, what) == r \in DOMAIN runs /\ what \in runs[r].due

Undue(r, what) == [runs[r] EXCEPT !.due = @ \ {what}]

(* callback of the loading timeout of startSimulation, with runSimulation *)
LoadingFire(r) ==
    /\ Due(r, "load")
    /\ startButton' = Button("Pause Simulation", FALSE)
    /\ resetDisabled' = FALSE
    /\ simulationRunning' = TRUE
    /\ runs' = [runs EXCEPT ![r] =
                   [Undue(r, "load") EXCEPT !.phase = "started", !.interval = TRUE,
                                            !.graph = networkInstance]]
    /\ toast' = "Simulation starting"
    /\ UNCHANGED <<networkInstance, scenarioSelect, targetSelect, log, defenseTable,
                   eventCounter, nodes, edges, report, lastReset, inputs,
                   inline>>

(* An item of the log and of the defense table: the event and, for the
   properties that speak of runs, the run whose interval delivered it. *)
Item(r, event) == [run |-> r, event |-> event]

(* addSimulationEvent without the test of the event type: every event gets a
   row in the defense table. *)
addSimulationEventAllRows(r, event) ==
    /\ log' = Append(log, Item(r, event))
    /\ defenseTable' = Append(defenseTable, Item(r, event))

addSimulationEvent(r, event) ==
    /\ log' = Append(log, Item(r, event))
    /\ defenseTable' = IF event.type = "defense" /\ event.defense # ""
                       THEN Append(defenseTable, Item(r, event))
                       ELSE defenseTable

(* The interval callback without its clearInterval: at the end of the script
   the completion timeout is set and the interval stays live. *)
IntervalTickNoClear(r) ==
    /\ Due(r, "tick")
    /\ LET run == runs[r]
           events == getScenarioEvents(run.scenario)
       IN IF ~simulationRunning
          THEN /\ runs' = [runs EXCEPT ![r] = Undue(r, "tick")]
               /\ UNCHANGED <<log, defenseTable, eventCounter>>
          ELSE IF run.i >= Len(events)
          THEN /\ runs' = [runs EXCEPT ![r] =
                              [Undue(r, "tick") EXCEPT !.doneIn = CompletionDelay \div Unit]]
               /\ UNCHANGED <<log, defenseTable, eventCounter>>
          ELSE /\ addSimulationEvent(r, events[run.i + 1])
               /\ eventCounter' = run.eventCount + 1
               /\ runs' = [runs EXCEPT ![r] =
                              [Undue(r, "tick") EXCEPT !.i = @ + 1, !.eventCount = @ + 1]]
    /\ UNCHANGED <<simulationRunning, networkInstance, scenarioSelect, targetSelect,
                   startButton, resetDisabled, nodes, edges, report, toast, lastReset, inputs,
                   inline>>

(* The interval callback without its test of simulationRunning: it delivers
   while the simulation is paused. *)
IntervalTickNoPauseCheck(r) ==
    /\ Due(r, "tick")
    /\ LET run == runs[r]
           events == getScenarioEvents(run.scenario)
       IN IF run.i >= Len(events)
          THEN /\ runs' = [runs EXCEPT ![r] =
                              [Undue(r, "tick") EXCEPT !.interval = FALSE,
                                                       !.doneIn = CompletionDelay \div Unit]]
               /\ UNCHANGED <<log, defenseTable, eventCounter>>
          ELSE /\ addSimulationEvent(r, events[run.i + 1])
               /\ eventCounter' = run.eventCount + 1
               /\ runs' = [runs EXCEPT ![r] =
                              [Undue(r, "tick") EXCEPT !.i = @ + 1, !.eventCount = @ + 1]]
    /\ UNCHANGED <<simulationRunning, networkInstance, scenarioSelect, targetSelect,
                   startButton, resetDisabled, nodes, edges, report, toast, lastReset, inputs,
                   inline>>

(* The interval callback with its end test off by one (i >= events.length - 1):
   it ends the run before the last event is delivered. *)
IntervalTickEarlyEnd(r) ==
    /\ Due(r, "tick")
    /\ LET run == runs[r]
           events == getScenarioEvents(run.scenario)
       IN IF ~simulationRunning
          THEN /\ runs' = [runs EXCEPT ![r] = Undue(r, "tick")]
               /\ UNCHANGED <<log, defenseTable, eventCounter>>
          ELSE IF run.i >= Len(events) - 1
          THEN /\ runs' = [runs EXCEPT ![r] =
                              [Undue(r, "tick") EXCEPT !.interval = FALSE,
                                                       !.doneIn = CompletionDelay \div Unit]]
               /\ UNCHANGED <<log, defenseTable, eventCounter>>
          ELSE /\ addSimulationEvent(r, events[run.i + 1])
               /\ eventCounter' = run.eventCount + 1
               /\ runs' = [runs EXCEPT ![r] =
                              [Undue(r, "tick") EXCEPT !.i = @ + 1, !.eventCount = @ + 1]]
    /\ UNCHANGED <<simulationRunning, networkInstance, scenarioSelect, targetSelect,
                   startButton, resetDisabled, nodes, edges, report, toast, lastReset, inputs,
                   inline>>

(* callback of the interval of runSimulation *)
IntervalTick(r) ==
    /\ Due(r, "tick")
    /\ LET run == runs[r]
           events == getScenarioEvents(run.scenario)
       IN IF ~simulationRunning
          THEN /\ runs' = [runs EXCEPT ![r] = Undue(r, "tick")]
               /\ UNCHANGED <<log, defenseTable, eventCounter>>
          ELSE IF run.i >= Len(events)
          THEN /\ runs' = [runs EXCEPT ![r] =
                              [Undue(r, "tick") EXCEPT !.interval = FALSE,
                                                       !.doneIn = CompletionDelay \div Unit]]
               /\ UNCHANGED <<log, defenseTable, eventCounter>>
          ELSE /\ addSimulationEvent(r, events[run.i + 1])
               /\ eventCounter' = run.eventCount + 1
               /\ runs' = [runs EXCEPT ![r] =
                              [Undue(r, "tick") EXCEPT !.i = @ + 1, !.eventCount = @ + 1]]
    /\ UNCHANGED <<simulationRunning, networkInstance, scenarioSelect, targetSelect,
                   startButton, resetDisabled, nodes, edges, report, toast, lastReset, inputs,
                   inline>>

(* The graph-transition callback made to respect the pause: while the
   simulation is not running it leaves the graph alone. *)
GraphStepOnlyWhenRunning(r) ==
    /\ Due(r, "graph")
    /\ LET script == updateNetworkForScenario(runs[r].scenario)
           k == CHOOSE k \in StepsAt(runs[r].scenario, runs[r].age) : TRUE
       IN IF simulationRunning
          THEN /\ nodes' = UpdateNodes(nodes, script[k].nodes)
               /\ edges' = UpdateEdges(edges, script[k].edges)
          ELSE UNCHANGED <<nodes, edges>>
    /\ runs' = [runs EXCEPT ![r] = Undue(r, "graph")]
    /\ UNCHANGED <<simulationRunning, networkInstance, scenarioSelect, targetSelect,
                   startButton, resetDisabled, log, defenseTable, eventCounter,
                   report, toast, lastReset, inputs,
                   inline>>

(* callback of one graph-transition timeout of the simulate...Attack functions *)
GraphStep(r) ==
    /\ Due(r, "graph")
    /\ LET script == updateNetworkForScenario(runs[r].scenario)
           k == CHOOSE k \in StepsAt(runs[r].scenario, runs[r].age) : TRUE
       IN /\ nodes' = UpdateNodes(nodes, script[k].nodes)
          /\ edges' = UpdateEdges(edges, script[k].edges)
    /\ runs' = [runs EXCEPT ![r] = Undue(r, "graph")]
    /\ UNCHANGED <<simulationRunning, networkInstance, scenarioSelect, targetSelect,
                   startButton, resetDisabled, log, defenseTable, eventCounter,
                   report, toast, lastReset, inputs,
                   inline>>

(* The results modal left as it is: simulationCompleted without its call of
   showSimulationResults. *)
showNoResults(d, a) ==
    report' = report

(* showSimulationResults with the two offsets exchanged. *)
showSimulationResultsSwapped(d, a) ==
    report' = [scenarioName |-> OptionText(scenarioSelect),
               duration |-> "1 minute 15 seconds",
               defenseScore |-> d + 20,
               attackScore |-> a + 65]

showSimulationResults(d, a) ==
    report' = [scenarioName |-> OptionText(scenarioSelect),
               duration |-> "1 minute 15 seconds",
               defenseScore |-> d + 65,
               attackScore |-> a + 20]

(* callback of the completion timeout: simulationCompleted *)
CompletionFire(r) ==
    /\ Due(r, "done")
    /\ simulationRunning' = FALSE
    /\ startButton' = [startButton EXCEPT !.label = "Start New Simulation"]
    /\ \E d \in DefenseRolls, a \in AttackRolls : showSimulationResults(d, a)
    /\ runs' = [runs EXCEPT ![r] = [Undue(r, "done") EXCEPT !.completions = @ + 1]]
    /\ UNCHANGED <<networkInstance, scenarioSelect, targetSelect, resetDisabled,
                   log, defenseTable, eventCounter, nodes, edges, toast, lastReset, inputs,
                   inline>>

(* A timer of the run is still to fire at a later time. *)
Pending(run) ==
    \/ run.phase = "loading"
    \/ run.interval
    \/ run.doneIn > 0
    \/ run.graph /\ run.phase = "started" /\ run.age < LastStepAge(run.scenario)

AdvanceRun(run) ==
    IF run.phase = "loading"
    THEN [run EXCEPT !.load = @ - 1, !.due = IF run.load = 1 THEN {"load"} ELSE {}]
    ELSE LET more == run.graph /\ run.age < LastStepAge(run.scenario)
             age == IF more THEN run.age + 1 ELSE run.age
         IN [run EXCEPT
                !.age = age,
                !.doneIn = IF @ > 0 THEN @ - 1 ELSE @,
                !.due = (IF run.interval THEN {"tick"} ELSE {})
                        \cup (IF more /\ StepsAt(run.scenario, age) # {} THEN {"graph"} ELSE {})
                        \cup (IF run.doneIn = 1 THEN {"done"} ELSE {})]

(* Unit milliseconds pass: possible once every callback that was due has run. *)
Advance ==
    /\ \A r \in DOMAIN runs : runs[r].due = {}
    /\ \E r \in DOMAIN runs : Pending(runs[r])
    /\ runs' = [r \in DOMAIN runs |-> AdvanceRun(runs[r])]
    /\ UNCHANGED <<simulationRunning, networkInstance, scenarioSelect, targetSelect,
                   startButton, resetDisabled, log, defenseTable, eventCounter,
                   nodes, edges, report, toast, lastReset, inputs,
                   inline>>

(* Any timer callback, or time passing. *)
Timers ==
    \/ \E r \in 1..MaxRuns : LoadingFire(r)
    \/ \E r \in 1..MaxRuns : IntervalTick(r)
    \/ \E r \in 1..MaxRuns : GraphStep(r)
    \/ \E r \in 1..MaxRuns : CompletionFire(r)
    \/ Advance

(* One more user input, of at most max.  The specifications that use it are
   of simulation.js alone: the inline script of the template does not run. *)
Input(max) == inputs < max /\ inputs' = inputs + 1 /\ UNCHANGED inline

Next ==
    \/ \E s \in ScenarioChoices : ChangeScenario(s) /\ Input(MaxInputs)
    \/ \E ts \in TargetChoices : SelectTargets(ts) /\ Input(MaxInputs)
    \/ startSimulation /\ Input(MaxInputs)
    \/ resetSimulation /\ Input(MaxInputs)
    \/ Timers

Spec == Init /\ [][Next]_vars

CatalogNext ==
    \/ \E s \in ScenarioOptions : ChangeScenario(s) /\ Input(MaxCatalogInputs)
    \/ \E ts \in CatalogTargetChoices : SelectTargets(ts) /\ Input(MaxCatalogInputs)
    \/ startSimulation /\ Input(MaxCatalogInputs)
    \/ resetSimulation /\ Input(MaxCatalogInputs)
    \/ Timers

(* The event loop runs every timer callback whose time has come. *)
CatalogSpec == Init /\ [][CatalogNext]_vars /\ WF_vars(Timers)

----------------------------------------------------------------------------
(* Views of the state that the properties speak of *)

(* Status of the playback session, read off the running flag and the label of
   the start button, which the source sets together. *)
Status ==
    IF simulationRunning THEN "running"
    ELSE CASE startButton.label = "Resume Simulation" -> "paused"
           [] startButton.label = "Start New Simulation" -> "completed"
           [] startButton.label = "Starting..." -> "starting"
           [] OTHER -> "idle"

(* Security state that a node color stands for. *)
SecurityState(color) ==
    CASE color = compromisedStyle -> "compromised"
      [] color = atRiskStyle -> "at-risk"
      [] OTHER -> "nominal"

(* Position of a security state on the path nominal -> at-risk ->
   compromised. *)
Rank(state) ==
    CASE state = "nominal" -> 0
      [] state = "at-risk" -> 1
      [] OTHER -> 2

(* The topology graph: security state of every node, highlight state (color,
   width, dashes) of every edge. *)
Topology(ns, es) == [nodes |-> [id \in NodeIds |-> SecurityState(ns[id])], edges |-> es]

TopologyGraph == Topology(nodes, edges)

InitialTopologyGraph == Topology(InitialNodes, InitialEdges)

(* The events of the log, without the run that delivered them. *)
LogEvents == [k \in DOMAIN log |-> log[k].event]

IsPrefix(s, t) == Len(s) <= Len(t) /\ \A k \in DOMAIN s : s[k] = t[k]

(* Graph-transition timeouts of the run are still to fire. *)
GraphPending(run) ==
    /\ run.phase = "started"
    /\ run.graph
    /\ \/ run.age < LastStepAge(run.scenario)
       \/ "graph" \in run.due

(* Number of entries of the transition script of a run whose timeout has
   fired: those with a delay before the age of the run, and the one at its
   age once its callback has run. *)
AppliedSteps(run) ==
    IF run.phase = "started" /\ run.graph
    THEN Cardinality({k \in DOMAIN updateNetworkForScenario(run.scenario) :
             LET delay == updateNetworkForScenario(run.scenario)[k].delay
             IN \/ delay < run.age * Unit
                \/ delay = run.age * Unit /\ "graph" \notin run.due})
    ELSE 0

(* Nodes and edges of the initial graph after the first n entries of a
   transition script, applied in script order. *)
RECURSIVE ScriptGraph(_, _)
ScriptGraph(script, n) ==
    IF n = 0 THEN [nodes |-> InitialNodes, edges |-> InitialEdges]
    ELSE LET g == ScriptGraph(script, n - 1)
         IN [nodes |-> UpdateNodes(g.nodes, script[n].nodes),
             edges |-> UpdateEdges(g.edges, script[n].edges)]

----------------------------------------------------------------------------
(* Further specifications *)

(* pauseSimulation called again while the simulation is paused.  The page
   reaches pauseSimulation only through the click on the start button while
   running; this is the function called a second time. *)
pauseCall ==
    /\ Status = "paused"
    /\ pauseSimulation

(* Sessions of start, pause and a second call of pauseSimulation. *)
PauseNext ==
    \/ \E s \in ScenarioChoices : ChangeScenario(s) /\ Input(MaxPauseInputs)
    \/ startSimulation /\ Input(MaxPauseInputs)
    \/ pauseCall /\ Input(MaxPauseInputs)
    \/ Timers

PauseSpec == Init /\ [][PauseNext]_vars

(* Sessions of one start, of any scenario of the page, played by the timers
   to the end. *)
SessionNext ==
    \/ \E s \in ScenarioOptions : ChangeScenario(s) /\ Input(MaxSessionInputs)
    \/ \E ts \in CatalogTargetChoices : SelectTargets(ts) /\ Input(MaxSessionInputs)
    \/ startSimulation /\ Input(MaxSessionInputs)
    \/ Timers

SessionSpec == Init /\ [][SessionNext]_vars /\ WF_vars(Timers)

(* The items of the log whose event has category defense. *)
DefenseItems == {k \in DOMAIN log : log[k].event.type = "defense"}

(* The only run of the session is a ransomware run and has completed. *)
RansomwareCompleted ==
    /\ Len(runs) = 1
    /\ runs[1].scenario = "ransomware"
    /\ runs[1].completions = 1

----------------------------------------------------------------------------
(* Properties *)

(* C1: as long as there was no reset, the event log is a prefix of the script
   of the scenario of the latest run, in authored order and without
   duplicates. *)
C1_DeliveryInScriptOrder ==
    (lastReset = 0 /\ runs # <<>>) =>
        IsPrefix(LogEvents, getScenarioEvents(runs[Len(runs)].scenario))

(* C2: after a reset no event of a run started before the reset is in the
   event log (the reset empties the log, so such an event was appended
   later). *)
C2_NoEventOfRunBeforeReset ==
    \A k \in DOMAIN log : log[k].run > lastReset

(* C3: no graph transition of a run started before the last reset is applied
   to the graph. *)
C3_NoGraphStepOfRunBeforeReset ==
    [][\A r \in 1..MaxRuns : GraphStep(r) => r > lastReset]_vars

(* C4: every reset leaves the topology graph equal to the initial one. *)
C4_ResetRestoresGraph ==
    [][resetSimulation => TopologyGraph' = InitialTopologyGraph]_vars

(* C5: once a reset has made the status idle, only a click on start changes
   the status, and no report is produced meanwhile. *)
C5_IdleAfterResetUntilStart ==
    [][(lastReset > 0 /\ Status = "idle" /\ ~startSimulation) =>
          (Status' = "idle" /\ report' = report)]_vars

(* C6: a click on start while paused resumes the paused run: the event log
   and the defense table are kept, no new run is begun and the session is
   running again. *)
C6_StartWhilePausedResumes ==
    [][(Status = "paused" /\ startSimulation) =>
          (log' = log /\ defenseTable' = defenseTable /\ Len(runs') = Len(runs)
           /\ simulationRunning')]_vars

(* C7: at most one run has a live event-delivery interval and at most one run
   has graph-transition timeouts pending. *)
C7_OneActiveRun ==
    /\ Cardinality({r \in DOMAIN runs : runs[r].interval}) <= 1
    /\ Cardinality({r \in DOMAIN runs : GraphPending(runs[r])}) <= 1

(* C8: every run signals completion at most once, and only after its cursor
   reached the end of its script and its interval was cleared; a run whose
   interval was cleared has its completion scheduled or signalled. *)
C8_CompletionOncePerRun ==
    \A r \in DOMAIN runs :
        LET run == runs[r]
            ended == run.phase = "started" /\ ~run.interval
        IN /\ run.completions <= 1
           /\ run.completions = 1 <=> (ended /\ run.doneIn = 0 /\ "done" \notin run.due)
           /\ ended <=> run.doneIn >= 0
           /\ ended => run.i = Len(getScenarioEvents(run.scenario)) /\ "tick" \notin run.due

(* C8 witness: run 1 has signalled completion after having been resumed by a
   second start, whose run delivered into the same log. *)
C8_Witness ==
    /\ Len(runs) = 2
    /\ runs[1].completions = 1
    /\ \E k \in DOMAIN log : log[k].run = 1
    /\ \E k \in DOMAIN log : log[k].run = 2

(* C9: under fair timer firing, an accepted start after which the user makes
   no further input leads to status completed with a report available. *)
C9_StartReachesCompleted ==
    (runs # <<>> /\ runs[Len(runs)].phase = "loading" /\ inputs = MaxCatalogInputs)
        ~> (Status = "completed" /\ report # NoReport)

(* C9 witness: the run of the last possible input has completed and its
   report is shown. *)
C9_Witness ==
    /\ inputs = MaxCatalogInputs
    /\ runs # <<>>
    /\ runs[Len(runs)].completions = 1
    /\ runs[Len(runs)].scenario = "data_exfiltration"
    /\ Status = "completed"
    /\ report.scenarioName = "Data Exfiltration"

(* C10: a click on start while not running and with no target selected shows
   the validation error and changes nothing else. *)
C10_EmptyTargetsRejected ==
    [][(startSimulation /\ ~simulationRunning /\ targetSelect = {}) =>
          (/\ toast' = "Validation Error"
           /\ Status' = Status
           /\ UNCHANGED <<simulationRunning, networkInstance, scenarioSelect,
                          targetSelect, startButton, resetDisabled, log,
                          defenseTable, eventCounter, nodes, edges, runs, report>>)]_vars

(* C10 witness: the validation error was shown while idle with the custom
   scenario, which has no default targets. *)
C10_Witness ==
    /\ toast = "Validation Error"
    /\ Status = "idle"
    /\ scenarioSelect = "custom"
    /\ targetSelect = {}
    /\ runs = <<>>

(* C11: a click on start while not running, with a scenario that has no
   script of its own in the catalog, shows the validation error, starts no
   run (so no delivery and no graph transition is scheduled) and leaves the
   status and the log as they are. *)
C11_UnknownScenarioRejected ==
    [][(startSimulation /\ ~simulationRunning /\ scenarioSelect \notin CatalogKeys) =>
          (toast' = "Validation Error" /\ runs' = runs /\ log' = log
           /\ Status' = Status)]_vars

(* C12: a click on the button while running makes the status paused, and no
   step from a paused state to a paused state changes the event log, the
   defense table, the event counter or the cursor of any run. *)
C12_PausedHoldsDelivery ==
    [][/\ (simulationRunning /\ startSimulation) => Status' = "paused"
       /\ (Status = "paused" /\ Status' = "paused") =>
              /\ log' = log
              /\ defenseTable' = defenseTable
              /\ eventCounter' = eventCounter
              /\ \A r \in DOMAIN runs : runs'[r].i = runs[r].i]_vars

(* C12 witness: paused after the first event, and at least two interval
   ticks have fired since without delivering. *)
C12_Witness ==
    /\ Status = "paused"
    /\ Len(runs) = 1
    /\ runs[1].i = 1
    /\ Len(log) = 1
    /\ runs[1].age >= 3
    /\ runs[1].due = {}

(* C13: a call of pauseSimulation in a paused state changes nothing but the
   toast: the status stays paused, and the cursors and pending timers of the
   runs, the event log and the defense table are those left by the first
   call. *)
C13_PauseTwiceIsPauseOnce ==
    [][(Status = "paused" /\ pauseSimulation) =>
          (/\ Status' = "paused"
           /\ UNCHANGED <<simulationRunning, networkInstance, scenarioSelect,
                          targetSelect, startButton, resetDisabled, log,
                          defenseTable, eventCounter, nodes, edges, runs, report>>)]_vars

(* C13 witness: paused with one event delivered, after the four inputs
   select, start, pause, pause. *)
C13_Witness ==
    /\ Status = "paused"
    /\ inputs = MaxPauseInputs
    /\ toast = "Simulation paused"
    /\ Len(runs) = 1
    /\ runs[1].i = 1
    /\ Len(log) = 1

(* C14 as stated: a ransomware run played to completion has delivered
   exactly 16 events, exactly 7 of them of category defense. *)
C14_RansomwareSixteenEventsSevenDefense ==
    RansomwareCompleted => (Len(log) = 16 /\ Cardinality(DefenseItems) = 7)

(* C14 amended: a ransomware run played to completion has delivered exactly
   16 events, exactly 8 of them of category defense. *)
C14_RansomwareSixteenEventsEightDefense ==
    RansomwareCompleted => (Len(log) = 16 /\ Cardinality(DefenseItems) = 8)

(* C14 witness: a completed ransomware run with its last event in the log. *)
C14_Witness ==
    /\ RansomwareCompleted
    /\ log # <<>>
    /\ log[Len(log)].event.time = "01:05"
    /\ Status = "completed"

(* C15: the row of the defense table made from the ransomware event that
   mentions lateral movement shows the attack vector "Lateral Movement". *)
C15_LateralMovementInferred ==
    \A k \in DOMAIN defenseTable :
        defenseTable[k].event.message = "Lateral movement partially blocked" =>
            AttackVector(defenseTable[k]) = "Lateral Movement"

(* C16: the defense table is no longer than the event log, and every row of
   it was made from an event of category defense that is in the log. *)
C16_LedgerWithinLog ==
    /\ Len(defenseTable) <= Len(log)
    /\ \A k \in DOMAIN defenseTable :
           /\ defenseTable[k].event.type = "defense"
           /\ \E j \in DOMAIN log : log[j] = defenseTable[k]

(* C16 witness: a second run, started after a reset, has delivered its four
   events, two of them defense events with a row in the table. *)
C16_Witness ==
    /\ lastReset = 1
    /\ Len(runs) = 2
    /\ Len(log) = 4
    /\ Len(defenseTable) = 2
    /\ \A k \in DOMAIN log : log[k].run = 2

(* C17: except for a reset, no step moves the security state of a node back
   to an earlier state of nominal -> at-risk -> compromised. *)
C17_NodeStatesOnlyAdvance ==
    [][resetSimulation \/
       \A id \in NodeIds :
           Rank(SecurityState(nodes'[id])) >= Rank(SecurityState(nodes[id]))]_vars

(* C18: neither perimeter node (Internet, id 1, and Firewall, id 2) is ever
   in the compromised state. *)
C18_PerimeterNeverCompromised ==
    /\ SecurityState(nodes[1]) # "compromised"
    /\ SecurityState(nodes[2]) # "compromised"

(* C20: every report shown has its defense score in 65..95 and its attack
   score in 20..70, both therefore in 0..100. *)
C20_ScoresInRange ==
    report # NoReport =>
        /\ report.defenseScore \in 65..95
        /\ report.attackScore \in 20..70
        /\ report.defenseScore \in 0..100
        /\ report.attackScore \in 0..100

(* C20 witness: a report of a data exfiltration run with the largest scores
   that the random draws can give. *)
C20_Witness ==
    /\ report.scenarioName = "Data Exfiltration"
    /\ report.defenseScore = 94
    /\ report.attackScore = 69
    /\ Len(defenseTable) = 8

(* C21: a report is shown only if some run has signalled completion with its
   cursor at the end of its script. *)
C21_NoReportBeforeCompletion ==
    report # NoReport =>
        \E r \in DOMAIN runs :
            /\ runs[r].completions >= 1
            /\ runs[r].i = Len(getScenarioEvents(runs[r].scenario))

(* C21 witness: the report of the first run is shown while a second run is
   still loading. *)
C21_Witness ==
    /\ Len(runs) = 2
    /\ runs[1].completions = 1
    /\ runs[2].phase = "loading"
    /\ runs[2].i = 0
    /\ report # NoReport

(* C22: for every message delivered by any script, determineAttackVector
   returns the label of the first rule, in the order of Rules, whose substring
   occurs in the message, and "Unknown" if none occurs; a message with both
   "phishing" and "malicious attachment" in it yields "Phishing". *)
C22_FirstMatchingRuleWins ==
    \A k \in DOMAIN log :
        LET message == log[k].event.message
            hits == {n \in DOMAIN Rules : Includes(Spell(message), Spell(Rules[n][1]))}
        IN /\ hits = {} => determineAttackVector(message) = "Unknown"
           /\ hits # {} =>
                  \E n \in hits :
                      /\ \A h \in hits : n <= h
                      /\ determineAttackVector(message) = Rules[n][2]
           /\ {1, 2} \subseteq hits => determineAttackVector(message) = "Phishing"

(* C22 witness: the log holds a message that contains both "phishing" and
   "malicious attachment", one that matches a later rule only and one that
   matches none. *)
C22_Witness ==
    /\ \E k \in DOMAIN log :
           /\ Includes(Spell(log[k].event.message), Spell("phishing"))
           /\ Includes(Spell(log[k].event.message), Spell("malicious attachment"))
    /\ \E k \in DOMAIN log : determineAttackVector(log[k].event.message) = "Encryption"
    /\ \E k \in DOMAIN log : determineAttackVector(log[k].event.message) = "Unknown"

(* C23: while the only run so far is paused, the graph is the initial graph
   with every script entry applied whose delay has elapsed since the run
   began, whatever the time spent paused: the graph-transition timeouts fire
   during the pause although the event log stands still (C12). *)
C23_GraphAdvancesWhilePaused ==
    (Len(runs) = 1 /\ lastReset = 0 /\ Status = "paused") =>
        LET g == ScriptGraph(updateNetworkForScenario(runs[1].scenario),
                             AppliedSteps(runs[1]))
        IN nodes = g.nodes /\ edges = g.edges

(* C23 witness: paused with one event delivered, that is less than 1000 ms
   into the run, and the graph transition of 3000 ms has been applied. *)
C23_Witness ==
    /\ Len(runs) = 1
    /\ lastReset = 0
    /\ Status = "paused"
    /\ Len(log) = 1
    /\ AppliedSteps(runs[1]) = 1
    /\ SecurityState(nodes[8]) = "compromised"

(* C24: in every step the graph has the nodes 1..8 and the eight edges before
   and after it, the network once created stays, and a click on start leaves
   nodes and edges as they are (nothing is created anew). *)
C24_GraphCreatedOnce ==
    [][/\ DOMAIN nodes = NodeIds /\ DOMAIN nodes' = NodeIds
       /\ DOMAIN edges = EdgeIdx /\ DOMAIN edges' = EdgeIdx
       /\ networkInstance => networkInstance'
       /\ startSimulation => UNCHANGED <<nodes, edges>>]_vars

(* C24 witness: a second run has been started after a reset, on a graph that
   the first run has changed and the second has not touched yet. *)
C24_Witness ==
    /\ Len(runs) = 2
    /\ lastReset = 1
    /\ AppliedSteps(runs[1]) >= 1
    /\ AppliedSteps(runs[2]) = 0
    /\ SecurityState(nodes[8]) = "compromised"
    /\ DOMAIN nodes = NodeIds

(* C25: in a session without reset and without a completed run, that is
   while one run is played, paused and resumed, every entry of the transition
   script has been applied to the graph by at most one timeout. *)
C25_EachEntryAppliedOnce ==
    (lastReset = 0 /\ \A r \in DOMAIN runs : runs[r].completions = 0) =>
        \A r \in DOMAIN runs :
            \A k \in DOMAIN updateNetworkForScenario(runs[r].scenario) :
                Cardinality({q \in DOMAIN runs : /\ runs[q].scenario = runs[r].scenario
                                                 /\ AppliedSteps(runs[q]) >= k}) <= 1

(* C26: the defense table holds exactly the defense events of the event log,
   one row for each, in the order of the log; an empty log goes with an empty
   table. *)
C26_DefenseTableIsDefensePartOfLog ==
    LET defense(item) == item.event.type = "defense"
    IN defenseTable = SelectSeq(log, defense)

(* A distributed-denial-of-service run has delivered three defense events
   among events of the other types. *)
C26_Witness ==
    /\ Len(runs) = 1
    /\ runs[1].scenario = "ddos"
    /\ Len(defenseTable) >= 3
    /\ Len(log) > Len(defenseTable)
    /\ log[1].event.type # "defense"

(* C27: startSimulation called while the simulation is running only pauses
   it: whatever the target selection, the status becomes paused with the
   pause notification, and the event log, the defense table, the event
   counter, the graph, the report and every run (its position in the script
   and its timers) stay as they are. *)
C27_StartWhileRunningOnlyPauses ==
    [][(simulationRunning /\ startSimulation) =>
          /\ Status' = "paused"
          /\ toast' = "Simulation paused"
          /\ UNCHANGED <<log, defenseTable, eventCounter, runs, nodes, edges,
                         report, targetSelect, scenarioSelect, resetDisabled>>]_vars

(* A run was paused by the start button while no target was selected, with
   its delivered event still in the log. *)
C27_Witness ==
    /\ Status = "paused"
    /\ toast = "Simulation paused"
    /\ targetSelect = {}
    /\ Len(runs) = 1
    /\ Len(log) >= 1

(* C28: the report shown at the completion of a run names the scenario that
   the run was started with. *)
C28_ReportNamesScenarioOfRun ==
    [][\A r \in DOMAIN runs :
          CompletionFire(r) => report'.scenarioName = OptionText(runs[r].scenario)]_vars

(* C29: the event counter shows the number of events in the event log. *)
C29_CounterIsLogLength ==
    eventCounter = Len(log)

(* C30: the status becomes completed only from running; a paused simulation
   does not complete. *)
C30_CompletedOnlyFromRunning ==
    [][(Status' = "completed" /\ Status # "completed") => Status = "running"]_vars

(* C31: when a run becomes running while every earlier run has completed,
   with no reset in between, the graph is the initial one
   and no graph-transition timeout of an earlier run is still to fire. *)
C31_RunBeginsOnInitialGraph ==
    [][\A r \in DOMAIN runs :
          (/\ LoadingFire(r)
           /\ lastReset = 0
           /\ \A q \in DOMAIN runs : q < r => runs[q].completions >= 1)
          => /\ nodes = InitialNodes
             /\ edges = InitialEdges
             /\ \A q \in DOMAIN runs : q # r => ~GraphPending(runs[q])]_vars

(* C32: a change of the scenario selection makes the target selection the
   default targets of the new scenario, whatever was selected before, and
   the empty set for the custom scenario; a start with an empty target
   selection, while no simulation is running, is rejected with the validation
   notification and starts no run. *)
C32_ScenarioChangeSetsDefaultTargets ==
    [][/\ scenarioSelect' # scenarioSelect =>
             targetSelect' =
                 CASE scenarioSelect' = "ransomware" -> {"endpoints", "databases"}
                   [] scenarioSelect' = "phishing" -> {"endpoints"}
                   [] scenarioSelect' = "ddos" -> {"web_servers", "network"}
                   [] scenarioSelect' = "data_exfiltration" -> {"databases", "endpoints"}
                   [] scenarioSelect' = "supply_chain" -> {"web_servers", "endpoints"}
                   [] scenarioSelect' = "custom" -> {}
       /\ (startSimulation /\ ~simulationRunning /\ targetSelect = {}) =>
             /\ toast' = "Validation Error"
             /\ UNCHANGED <<runs, log, defenseTable, startButton, simulationRunning>>]_vars

(* The custom scenario was selected, which left no target selected, and the
   start that followed was rejected. *)
C32_Witness ==
    /\ scenarioSelect = "custom"
    /\ targetSelect = {}
    /\ toast = "Validation Error"
    /\ runs = <<>>

----------------------------------------------------------------------------
(* The simulation page: simulation.js together with the inline script of the
   template.  Both register a click listener on #start-simulation-btn, the
   one of simulation.js first (its script element comes first). *)

(* One click on the Start button: startSimulation, then the inline listener.
   The inline listener disables the button and labels it "Starting...", which
   overwrites what startSimulation or pauseSimulation wrote to the button;
   it creates its network if there is none and sets its loading timeout,
   whatever the target selection and whether or not a simulation is running. *)
startClick ==
    /\ ~startButton.disabled
    /\ inputs < MaxPageInputs
    /\ inputs' = inputs + 1
    /\ IF simulationRunning
       THEN /\ simulationRunning' = FALSE
            /\ toast' = "Simulation paused"
            /\ UNCHANGED <<networkInstance, log, defenseTable, eventCounter, runs>>
       ELSE IF targetSelect = {}
       THEN /\ toast' = "Validation Error"
            /\ UNCHANGED <<simulationRunning, networkInstance, log, defenseTable,
                           eventCounter, runs>>
       ELSE /\ Len(runs) < MaxRuns
            /\ log' = <<>>
            /\ defenseTable' = <<>>
            /\ eventCounter' = 0
            /\ networkInstance' = TRUE
            /\ runs' = Append(runs, NewRun(scenarioSelect, targetSelect, TRUE))
            /\ UNCHANGED <<simulationRunning, toast>>
    /\ startButton' = Button("Starting...", TRUE)
    /\ inline' = [inline EXCEPT !.network = TRUE, !.runs = Append(@, NewInlineRun)]
    /\ UNCHANGED <<scenarioSelect, targetSelect, resetDisabled, nodes, edges,
                   report, lastReset>>

InlineDue(q, what) == q \in DOMAIN inline.runs /\ what \in inline.runs[q].due

InlineUndue(q, what) == [inline.runs[q] EXCEPT !.due = @ \ {what}]

(* An item that the interval of the inline run q appended: the runs of the
   inline script are numbered -1, -2, ... in the run field. *)
InlineItem(q, event) == [run |-> 0 - q, event |-> event]

(* callback of the loading timeout of the inline listener, with
   startSimulationEvents (log and table emptied, interval set) and
   simulateAttack (timeouts set if there is a network) *)
InlineLoadingFire(q) ==
    /\ InlineDue(q, "load")
    /\ resetDisabled' = FALSE
    /\ startButton' = Button("Pause Simulation", FALSE)
    /\ log' = <<>>
    /\ defenseTable' = <<>>
    /\ inline' = [inline EXCEPT !.runs[q] =
                     [InlineUndue(q, "load") EXCEPT !.phase = "started",
                                                    !.interval = TRUE,
                                                    !.graph = inline.network]]
    /\ UNCHANGED <<simulationRunning, networkInstance, scenarioSelect, targetSelect,
                   eventCounter, nodes, edges, runs, report, toast, lastReset, inputs>>

(* callback of the interval of startSimulationEvents; it does not test
   simulationRunning.  Two such intervals have the same period, so when both
   are due the one that was set first runs first. *)
InlineIntervalTick(q) ==
    /\ InlineDue(q, "tick")
    /\ \A p \in 1..(q - 1) : ~InlineDue(p, "tick")
    /\ LET run == inline.runs[q]
           events == startSimulationEventsList
       IN IF run.i >= Len(events)
          THEN /\ inline' = [inline EXCEPT !.runs[q] =
                               [InlineUndue(q, "tick") EXCEPT
                                   !.interval = FALSE,
                                   !.doneIn = CompletionDelay \div Unit]]
               /\ UNCHANGED <<log, defenseTable, eventCounter>>
          ELSE /\ log' = Append(log, InlineItem(q, events[run.i + 1]))
               /\ eventCounter' = run.eventCount + 1
               /\ defenseTable' =
                      IF events[run.i + 1].type = "defense" /\ events[run.i + 1].defense # ""
                      THEN Append(defenseTable, InlineItem(q, events[run.i + 1]))
                      ELSE defenseTable
               /\ inline' = [inline EXCEPT !.runs[q] =
                               [InlineUndue(q, "tick") EXCEPT !.i = @ + 1,
                                                              !.eventCount = @ + 1]]
    /\ UNCHANGED <<simulationRunning, networkInstance, scenarioSelect, targetSelect,
                   startButton, resetDisabled, nodes, edges, runs, report, toast,
                   lastReset, inputs>>

(* callback of one timeout of simulateAttack, on the data sets of the inline
   script *)
InlineGraphStep(q) ==
    /\ InlineDue(q, "graph")
    /\ LET k == CHOOSE k \in InlineStepsAt(inline.runs[q].age) : TRUE
       IN inline' = [inline EXCEPT
                        !.nodes = UpdateNodes(@, simulateAttack[k].nodes),
                        !.edges = @ \o simulateAttack[k].edges,
                        !.runs[q] = InlineUndue(q, "graph")]
    /\ UNCHANGED <<simulationRunning, networkInstance, scenarioSelect, targetSelect,
                   startButton, resetDisabled, log, defenseTable, eventCounter,
                   nodes, edges, runs, report, toast, lastReset, inputs>>

(* callback of the timeout set at the end of the inline interval: showResults *)
showResults(q) ==
    /\ InlineDue(q, "done")
    /\ report' = [scenarioName |-> OptionText(scenarioSelect),
                  duration |-> "1 minute 5 seconds",
                  defenseScore |-> 75,
                  attackScore |-> 35]
    /\ inline' = [inline EXCEPT !.runs[q] = InlineUndue(q, "done")]
    /\ UNCHANGED <<simulationRunning, networkInstance, scenarioSelect, targetSelect,
                   startButton, resetDisabled, log, defenseTable, eventCounter,
                   nodes, edges, runs, toast, lastReset, inputs>>

(* A timer of the inline run is still to fire at a later time. *)
InlinePending(run) ==
    \/ run.phase = "loading"
    \/ run.interval
    \/ run.doneIn > 0
    \/ run.graph /\ run.phase = "started" /\ run.age < InlineLastStepAge

InlineAdvanceRun(run) ==
    IF run.phase = "loading"
    THEN [run EXCEPT !.load = @ - 1, !.due = IF run.load = 1 THEN {"load"} ELSE {}]
    ELSE LET more == run.graph /\ run.age < InlineLastStepAge
             age == IF more THEN run.age + 1 ELSE run.age
         IN [run EXCEPT
                !.age = age,
                !.doneIn = IF @ > 0 THEN @ - 1 ELSE @,
                !.due = (IF run.interval THEN {"tick"} ELSE {})
                        \cup (IF more /\ InlineStepsAt(age) # {} THEN {"graph"} ELSE {})
                        \cup (IF run.doneIn = 1 THEN {"done"} ELSE {})]

(* Unit milliseconds pass on the page: possible once every callback of either
   script that was due has run. *)
PageAdvance ==
    /\ \A r \in DOMAIN runs : runs[r].due = {}
    /\ \A q \in DOMAIN inline.runs : inline.runs[q].due = {}
    /\ \/ \E r \in DOMAIN runs : Pending(runs[r])
       \/ \E q \in DOMAIN inline.runs : InlinePending(inline.runs[q])
    /\ runs' = [r \in DOMAIN runs |-> AdvanceRun(runs[r])]
    /\ inline' = [inline EXCEPT !.runs =
                     [q \in DOMAIN inline.runs |-> InlineAdvanceRun(inline.runs[q])]]
    /\ UNCHANGED <<simulationRunning, networkInstance, scenarioSelect, targetSelect,
                   startButton, resetDisabled, log, defenseTable, eventCounter,
                   nodes, edges, report, toast, lastReset, inputs>>

(* Selections, clicks on Start, and the timer callbacks of both scripts. *)
PageNext ==
    \/ \E s \in ScenarioChoices : ChangeScenario(s) /\ Input(MaxPageInputs)
    \/ \E ts \in TargetChoices : SelectTargets(ts) /\ Input(MaxPageInputs)
    \/ startClick
    \/ \E r \in 1..MaxRuns : LoadingFire(r)
    \/ \E r \in 1..MaxRuns : IntervalTick(r)
    \/ \E r \in 1..MaxRuns : GraphStep(r)
    \/ \E r \in 1..MaxRuns : CompletionFire(r)
    \/ \E q \in 1..MaxPageInputs : InlineLoadingFire(q)
    \/ \E q \in 1..MaxPageInputs : InlineIntervalTick(q)
    \/ \E q \in 1..MaxPageInputs : InlineGraphStep(q)
    \/ \E q \in 1..MaxPageInputs : showResults(q)
    \/ PageAdvance

PageSpec == Init /\ [][PageNext]_vars

(* Number of loading timeouts, each of which sets an event-delivery interval
   on the event log when it fires, that are set in the two scripts. *)
IntervalsBegun == Len(runs) + Len(inline.runs)

(* C33: one click on the Start button of the page sets off at most one
   event-delivery interval, and none when no target is selected. *)
C33_OneClickOneInterval ==
    [][startClick =>
          /\ IntervalsBegun' - IntervalsBegun <= 1
          /\ targetSelect = {} => IntervalsBegun' = IntervalsBegun]_vars

====
